---- MODULE Spec2Model ----
(***************************************************************************)
(* PrioritiAI priority-scoring engine (AIPrioritization service).          *)
(*                                                                         *)
(* One scoring invocation is modelled as a pipeline:                       *)
(*   received -> validated -> gated -> analyzed -> scored                  *)
(*            -> (refining ->) done            or  received -> rejected    *)
(*                                                                         *)
(* Fixed-point units: scores and weights in tenths (8.5 is 85), the final  *)
(* priority score and the thresholds in thousandths (8.0 is 8000),         *)
(* confidences in hundredths (0.92 is 92), SLA hours in tenths of an hour, *)
(* effort hours in hundredths of an hour, time gaps in whole hours.        *)
(***************************************************************************)
EXTENDS Integers, Sequences, FiniteSets, TLC

VARIABLES
    pc,             \* position of the invocation in the pipeline
    task,           \* the TaskInput of this invocation (never mutated)
    config,         \* engine configuration: thresholds, refiner
    isSensitive,    \* output of the sensitive-content gate
    auditLog,       \* audit entries written by the gate
    metrics,        \* ContentMetrics
    result,         \* PriorityResult being built / returned
    refinerCalls,   \* calls made to the external LLM refiner
    refinerOutcome, \* what the refiner call came back with
    errors,         \* the ValidationError raised, if any
    endpoint,       \* the HTTP endpoint that received the request
    legacyResponse, \* the body answered by the legacy /classify endpoint
    refinerElapsed, \* ticks the pending refiner call has been waiting
    peer,           \* a second invocation running in parallel, if any
    tasks,          \* the rows of the tasks table, by serial id
    webhookQueue,   \* payloads the n8n webhook accepted, not yet processed
    mockTasks,      \* the in-memory store used without a database backend
    isSupabaseEnabled, \* whether NEXT_PUBLIC_SUPABASE_URL is set
    http,           \* the last request the task API answered
    reader,         \* a stored row, what the read path shows, writing it back
    slice,          \* the state of the Redux tasks slice
    inflight,       \* the thunks of the slice that are still pending
    now             \* Date.now(), in milliseconds since the mock store started

vars == <<pc, task, config, isSensitive, auditLog, metrics, result,
          refinerCalls, refinerOutcome, errors, endpoint, legacyResponse,
          refinerElapsed, peer, tasks, webhookQueue, mockTasks,
          isSupabaseEnabled, http, reader, slice, inflight, now>>

\* The browser side and the clock.
clientVars == <<reader, slice, inflight, now>>

\* The task store and the API in front of it.
storeVars == <<tasks, webhookQueue, mockTasks, isSupabaseEnabled, http>>

\* What lies outside the invocation that takes a step.
outsideVars == <<peer, storeVars, clientVars>>

\* What a step of the pipeline before the refiner leaves alone.
transportVars == <<endpoint, legacyResponse, refinerElapsed>>

None == "none"

\* Optional values: absent is the empty set, present is a singleton.
Absent == {}

Some(v) == {v}

Has(o) == o # {}

The(o) == CHOOSE v \in o : TRUE

----------------------------------------------------------------------------
(* Bounds of the input space *)

MaxKeywordHits == 2
MaxGapDays == 3
MaxComplexitySignals == 1
MaxRefinerTicks == 2

----------------------------------------------------------------------------
(* Enumerations *)

Roles == {"CEO", "CFO", "CTO", "MANAGER", "IT_ADMIN", "CLIENT", "DEVELOPER",
          "EMPLOYEE"}

UnknownRole == "CONTRACTOR"

Categories == {"SECURITY", "INFRASTRUCTURE", "MEETING_PREP", "SUPPORT",
               "DEVELOPMENT", "MAINTENANCE", "TRAINING", "COMPLIANCE"}

UnknownCategory == "FACILITIES"

UrgencyLevels == {"CRITICAL", "HIGH", "MEDIUM", "LOW"}

ExecutiveRoles == {"CEO", "CFO", "CTO"}

IndicatorCategories == {"credentials", "personal_data", "financial"}

----------------------------------------------------------------------------
(* Arithmetic helpers *)

Min(a, b) == IF a < b THEN a ELSE b

Max(a, b) == IF a > b THEN a ELSE b

Clamp(x, lo, hi) == Max(lo, Min(hi, x))

----------------------------------------------------------------------------
(* Engine configuration *)

\* Classification thresholds, highest first (score >= 8.0 CRITICAL, >= 6.0
\* HIGH, >= 4.0 MEDIUM, otherwise LOW), and the escalation threshold.
DefaultThresholds ==
    [critical |-> 8000, high |-> 6000, medium |-> 4000, escalation |-> 8000]

\* The thresholds of the service's .env: CRITICAL_THRESHOLD=8.5,
\* HIGH_THRESHOLD=6.5, MEDIUM_THRESHOLD=4.0, ESCALATION_THRESHOLD=8.0.
EnvThresholds ==
    [critical |-> 8500, high |-> 6500, medium |-> 4000, escalation |-> 8000]

ThresholdConfigs == {DefaultThresholds, EnvThresholds}

Configs == [thresholds : ThresholdConfigs, refinerConfigured : BOOLEAN]

\* finalPriorityScore weights, in hundredths.
WeightUrgency == 30
WeightBusinessImpact == 25
WeightRisk == 20
WeightRole == 15
WeightTimeSensitivity == 10

\* Executives escalate from this score on (6.0).
ExecutiveEscalationThreshold == 6000

\* timeSensitivityScore is 10.0 within ImminentHours and decays linearly to 0
\* at TimeHorizonHours.
ImminentHours == 1
TimeHorizonHours == 72

\* Confidence, in hundredths.
ConfidenceBaseline == 50
ConfidencePerSignal == 10
AnalysisConfidenceCap == 90
LocalConfidenceCeiling == 70
RefinedConfidence == 92

\* REQUEST_TIMEOUT_SECONDS of the service's .env.
RequestTimeoutSeconds == 30

----------------------------------------------------------------------------
(* TaskInput *)

\* Hours between createdAt and a meetingTime / deadline.
TimeGaps == {ImminentHours} \cup {24 * d : d \in 1..MaxGapDays}

OptionalTimes == {Absent} \cup {Some(g) : g \in TimeGaps}

KeywordHits == 0..MaxKeywordHits

UsersMentions == {"none", "one", "number", "all"}

\* A plain, structurally valid task without overrides and without signals.
BaseTask ==
    [id |-> "task_001", titleLen |-> 20, descLen |-> 80,
     category |-> "SUPPORT", requesterRole |-> "EMPLOYEE",
     meetingTime |-> Absent, deadline |-> Absent,
     indicators |-> {}, bizHits |-> 0, riskHits |-> 0, complexity |-> 0,
     usersMention |-> "none", usersNumber |-> 50, workaroundText |-> FALSE,
     businessValue |-> Absent, riskLevel |-> Absent,
     estimatedEffortHours |-> Absent, affectedUsersCount |-> Absent,
     workaroundAvailable |-> Absent]

\* Every role, category and time gap with every keyword count.
ScoringTasks ==
    { [BaseTask EXCEPT !.requesterRole = r, !.category = c, !.meetingTime = g,
                       !.bizHits = b, !.riskHits = k] :
        r \in Roles \cup {UnknownRole}, c \in Categories \cup {UnknownCategory},
        g \in OptionalTimes, b \in KeywordHits, k \in KeywordHits }

\* Manual overrides, in range and out of range, over weak and strong text.
OverrideTasks ==
    { [BaseTask EXCEPT !.requesterRole = r,
                       !.bizHits = h, !.riskHits = h,
                       !.complexity = IF h = 0 THEN 0 ELSE MaxComplexitySignals,
                       !.usersMention = IF h = 0 THEN "none" ELSE "number",
                       !.workaroundText = (h # 0),
                       !.businessValue = bv, !.riskLevel = rl,
                       !.estimatedEffortHours = ef, !.affectedUsersCount = au,
                       !.workaroundAvailable = wa] :
        r \in {"CEO", "EMPLOYEE"}, h \in {0, MaxKeywordHits},
        bv \in {Absent, {0}, {1}, {10}, {11}}, rl \in {Absent, {1}, {10}, {11}},
        ef \in {Absent, {0}, {1}, {5000}}, au \in {Absent, {0}, {500}},
        wa \in {Absent, {TRUE}, {FALSE}} }

\* Sparse and sensitive text.
TextTasks ==
    { [BaseTask EXCEPT !.descLen = dl,
                       !.requesterRole = r, !.category = c, !.deadline = d,
                       !.indicators = s, !.complexity = x,
                       !.usersMention = u, !.workaroundText = w] :
        dl \in {5, 80},
        r \in {"CFO", UnknownRole}, c \in {"MEETING_PREP", UnknownCategory},
        d \in {Absent, {0}, {24}},
        s \in {{}, {"credentials"}, {"personal_data", "financial"}},
        x \in 0..MaxComplexitySignals, u \in UsersMentions, w \in BOOLEAN }

\* Structurally invalid requests.
MalformedTasks ==
    { [BaseTask EXCEPT !.id = i, !.titleLen = tl, !.descLen = dl,
                       !.indicators = s, !.requesterRole = r] :
        i \in {"task_001", None}, tl \in {0, 20}, dl \in {0, 5, 80},
        s \in {{}, {"credentials"}}, r \in {"CFO", UnknownRole} }

TaskInputs == ScoringTasks \cup OverrideTasks \cup TextTasks \cup MalformedTasks

\* The body of a legacy /classify request: subject, body, sender, role_hint,
\* due_text ("in 30 minutes") and est_minutes; it names no category.
LegacyRoleHints == {"ceo", "manager", "contractor"}

LegacyRequests ==
    [subjectLen : {20}, bodyLen : {80}, role_hint : LegacyRoleHints,
     dueMinutes : {Absent, Some(30)}, est_minutes : {Absent, Some(5)},
     riskHits : {0, MaxKeywordHits}]

RoleOfHint(hint) ==
    CASE hint = "ceo" -> "CEO"
      [] hint = "manager" -> "MANAGER"
      [] OTHER -> UnknownRole

\* The TaskInput a legacy request is scored as: minutes become whole hours
\* (rounded up) for the deadline and hundredths of an hour for the effort.
TaskOfLegacy(q) ==
    [BaseTask EXCEPT !.id = "legacy_001",
                     !.titleLen = q.subjectLen, !.descLen = q.bodyLen,
                     !.category = UnknownCategory,
                     !.requesterRole = RoleOfHint(q.role_hint),
                     !.deadline = {(m + 59) \div 60 : m \in q.dueMinutes},
                     !.estimatedEffortHours =
                         {(100 * m) \div 60 : m \in q.est_minutes},
                     !.riskHits = q.riskHits]

LegacyTasks == {TaskOfLegacy(q) : q \in LegacyRequests}

Endpoints == {"sync", "classify"}

----------------------------------------------------------------------------
(* Validation: the only failure that crosses the engine boundary *)

\* Faulty variant: efforts under 6 minutes are refused.
EffortOverrideValidSixMinutes(v) == v >= 10

\* Faulty variant: an effort of zero hours is accepted.
EffortOverrideValidAcceptsZero(v) == v >= 0

\* Any positive time value is accepted (0.01 hours is the smallest unit).
EffortOverrideValid(v) == v > 0

ValidationErrors(t) ==
    {e \in {"missing_id", "empty_title", "empty_description",
            "business_value_range", "risk_level_range", "effort_range",
            "affected_users_range"} :
        \/ e = "missing_id" /\ t.id = None
        \/ e = "empty_title" /\ t.titleLen = 0
        \/ e = "empty_description" /\ t.descLen = 0
        \/ e = "business_value_range" /\ Has(t.businessValue)
             /\ ~(The(t.businessValue) \in 1..10)
        \/ e = "risk_level_range" /\ Has(t.riskLevel)
             /\ ~(The(t.riskLevel) \in 1..10)
        \/ e = "effort_range" /\ Has(t.estimatedEffortHours)
             /\ ~EffortOverrideValid(The(t.estimatedEffortHours))
        \/ e = "affected_users_range" /\ Has(t.affectedUsersCount)
             /\ ~(The(t.affectedUsersCount) >= 1)}

StructurallyValid(t) == ValidationErrors(t) = {}

----------------------------------------------------------------------------
(* 4.1 Sensitive-content gate *)

SensitiveGate(t) ==
    [isSensitive |-> t.indicators # {}, categories |-> t.indicators]

\* The audit entry names the matched categories, never the matched text.
AuditEntry(t) == [requestId |-> t.id, categories |-> t.indicators]

\* Faulty variant: every task is routed to OpenAI.
PrivacyRouteAlwaysOpenAI(sensitive) == "openai"

\* Privacy routing: sensitive tasks stay local, the others may go to OpenAI.

PrivacyRoute(sensitive) == IF sensitive THEN "local" ELSE "openai"

----------------------------------------------------------------------------
(* 4.2 Content-metric auto-calculator *)

RoleBusinessBase(role) ==
    CASE role \in ExecutiveRoles -> 8
      [] role = "MANAGER" -> 6
      [] role \in {"IT_ADMIN", "CLIENT", "DEVELOPER"} -> 5
      [] OTHER -> 3

CategoryRiskBase(category) ==
    CASE category = "SECURITY" -> 7
      [] category = "INFRASTRUCTURE" -> 6
      [] category = "COMPLIANCE" -> 5
      [] category \in {"SUPPORT", "DEVELOPMENT"} -> 4
      [] category = "TRAINING" -> 1
      [] OTHER -> 3

\* Hundredths of an hour.
CategoryEffortBase(category) ==
    CASE category = "SUPPORT" -> 100
      [] category = "MEETING_PREP" -> 50
      [] category = "DEVELOPMENT" -> 800
      [] category = "MAINTENANCE" -> 600
      [] category \in {"INFRASTRUCTURE", "COMPLIANCE"} -> 400
      [] category = "SECURITY" -> 300
      [] OTHER -> 200

AutoBusinessValue(t) ==
    Clamp(RoleBusinessBase(t.requesterRole) + 2 * t.bizHits, 1, 10)

AutoRiskLevel(t) ==
    Clamp(CategoryRiskBase(t.category) + 2 * t.riskHits, 1, 10)

\* A description under 10 characters carries no complexity: half the baseline.
AutoEffortHours(t) ==
    IF t.descLen < 10
    THEN CategoryEffortBase(t.category) \div 2
    ELSE CategoryEffortBase(t.category) + 100 * t.complexity

AutoAffectedUsers(t) ==
    CASE t.usersMention = "number" -> Max(1, t.usersNumber)
      [] t.usersMention = "all" -> 1000
      [] OTHER -> 1

AutoWorkaround(t) == t.workaroundText

\* The signals that credit each auto-calculated field.
FieldSignals(t, field) ==
    CASE field = "businessValue" ->
            (IF t.requesterRole \in Roles THEN 1 ELSE 0)
            + (IF t.bizHits > 0 THEN 1 ELSE 0)
      [] field = "riskLevel" -> IF t.riskHits > 0 THEN 1 ELSE 0
      [] field = "effortHours" -> IF t.complexity > 0 THEN 1 ELSE 0
      [] field = "affectedUsers" -> IF t.usersMention # "none" THEN 1 ELSE 0
      [] field = "workaroundAvailable" -> IF t.workaroundText THEN 1 ELSE 0

CreditedSignals(t) ==
      (IF Has(t.businessValue) THEN 0 ELSE FieldSignals(t, "businessValue"))
    + (IF Has(t.riskLevel) THEN 0 ELSE FieldSignals(t, "riskLevel"))
    + (IF Has(t.estimatedEffortHours) THEN 0 ELSE FieldSignals(t, "effortHours"))
    + (IF Has(t.affectedUsersCount) THEN 0 ELSE FieldSignals(t, "affectedUsers"))
    + (IF Has(t.workaroundAvailable) THEN 0
       ELSE FieldSignals(t, "workaroundAvailable"))

AnalysisConfidence(t) ==
    Min(AnalysisConfidenceCap,
        ConfidenceBaseline + ConfidencePerSignal * CreditedSignals(t))

\* Faulty variant: the automatic value is used even when an override exists.
OverrideOrAutoFirst(override, auto) == auto

\* Manual values override automatic calculations, field by field.
OverrideOr(override, auto) == IF Has(override) THEN The(override) ELSE auto

CalculateMetrics(t) ==
    [businessValue |-> OverrideOr(t.businessValue, AutoBusinessValue(t)),
     riskLevel |-> OverrideOr(t.riskLevel, AutoRiskLevel(t)),
     effortHours |-> OverrideOr(t.estimatedEffortHours, AutoEffortHours(t)),
     affectedUsers |-> OverrideOr(t.affectedUsersCount, AutoAffectedUsers(t)),
     workaroundAvailable |-> OverrideOr(t.workaroundAvailable, AutoWorkaround(t)),
     analysisConfidence |-> AnalysisConfidence(t)]

----------------------------------------------------------------------------
(* 4.3 Composite scoring engine *)

\* Faulty variant: role weights on a 0-10 scale.
RoleWeightTenScale(role) ==
    CASE role = "CEO" -> 100
      [] role \in {"CFO", "CTO"} -> 90
      [] role = "MANAGER" -> 70
      [] role = "IT_ADMIN" -> 60
      [] role \in {"CLIENT", "DEVELOPER"} -> 50
      [] OTHER -> 40

\* Faulty variant: every role weighs 2.0.
RoleWeightFlat(role) == 20

\* Role priority weights, in tenths; unknown roles weigh 2.0.
RoleWeight(role) ==
    CASE role = "CEO" -> 50
      [] role \in {"CFO", "CTO"} -> 45
      [] role = "MANAGER" -> 35
      [] role = "IT_ADMIN" -> 30
      [] role \in {"CLIENT", "DEVELOPER"} -> 25
      [] role = "EMPLOYEE" -> 20
      [] OTHER -> 20

\* Faulty variant: the multipliers of MEETING_PREP and TRAINING are exchanged.
CategoryMultiplierMeetingLast(category) ==
    CASE category = "SECURITY" -> 15
      [] category = "INFRASTRUCTURE" -> 13
      [] category = "MEETING_PREP" -> 6
      [] category = "SUPPORT" -> 10
      [] category = "DEVELOPMENT" -> 8
      [] category = "MAINTENANCE" -> 7
      [] category = "TRAINING" -> 12
      [] category = "COMPLIANCE" -> 9
      [] OTHER -> 10

\* Category urgency multipliers, in tenths; unknown categories multiply by 1.0.
CategoryMultiplier(category) ==
    CASE category = "SECURITY" -> 15
      [] category = "INFRASTRUCTURE" -> 13
      [] category = "MEETING_PREP" -> 12
      [] category = "SUPPORT" -> 10
      [] category = "DEVELOPMENT" -> 8
      [] category = "MAINTENANCE" -> 7
      [] category = "TRAINING" -> 6
      [] category = "COMPLIANCE" -> 9
      [] OTHER -> 10

\* The nearer of meetingTime and deadline, as hours after createdAt.
NearestTime(t) ==
    IF Has(t.meetingTime) /\ Has(t.deadline)
    THEN Some(Min(The(t.meetingTime), The(t.deadline)))
    ELSE t.meetingTime \cup t.deadline

TimeSensitivityScore(t) ==
    LET near == NearestTime(t) IN
    IF ~Has(near) THEN 0
    ELSE IF The(near) <= ImminentHours THEN 100
    ELSE IF The(near) >= TimeHorizonHours THEN 0
    ELSE (100 * (TimeHorizonHours - The(near)))
             \div (TimeHorizonHours - ImminentHours)

\* Base urgency from risk level and time proximity, times the category
\* multiplier, clamped to [0,10].
UrgencyScore(t, m) ==
    LET base == (10 * m.riskLevel + TimeSensitivityScore(t)) \div 2
    IN Clamp((base * CategoryMultiplier(t.category)) \div 10, 0, 100)

BusinessImpactScore(m) == Clamp(10 * m.businessValue, 0, 100)

RiskScore(m) == Clamp(10 * m.riskLevel, 0, 100)

\* Effort in hours on a 0-10 scale.
EffortComplexityScore(m) == Clamp(m.effortHours \div 10, 0, 100)

\* Faulty variant: the weights of urgency and business impact are swapped.
FinalPriorityScoreSwappedWeights(u, b, r, w, ts) ==
    Clamp(WeightBusinessImpact * u + WeightUrgency * b + WeightRisk * r
          + WeightRole * w + WeightTimeSensitivity * ts, 0, 10000)

\* Faulty variant: the risk score is subtracted instead of added.
FinalPriorityScoreRiskPenalty(u, b, r, w, ts) ==
    Clamp(WeightUrgency * u + WeightBusinessImpact * b - WeightRisk * r
          + WeightRole * w + WeightTimeSensitivity * ts, 0, 10000)

\* Final Priority Score = Urgency x 0.30 + Business Impact x 0.25
\*   + Risk x 0.20 + Role Weight x 0.15 + Time Sensitivity x 0.10,
\* in thousandths, clamped to [0,10].
FinalPriorityScore(u, b, r, w, ts) ==
    Clamp(WeightUrgency * u + WeightBusinessImpact * b + WeightRisk * r
          + WeightRole * w + WeightTimeSensitivity * ts, 0, 10000)

PriorityMetrics(t, m) ==
    LET u == UrgencyScore(t, m)
        b == BusinessImpactScore(m)
        r == RiskScore(m)
        w == RoleWeight(t.requesterRole)
        ts == TimeSensitivityScore(t)
    IN [urgencyScore |-> u, businessImpactScore |-> b, riskScore |-> r,
        roleWeight |-> w, timeSensitivityScore |-> ts,
        effortComplexityScore |-> EffortComplexityScore(m),
        finalPriorityScore |-> FinalPriorityScore(u, b, r, w, ts)]

----------------------------------------------------------------------------
(* 4.4 Urgency classifier, SLA deriver, escalation *)

\* Faulty variant: the thresholds are evaluated lowest first.
ClassifyUrgencyLowestFirst(score, th) ==
    IF score >= th.medium THEN "MEDIUM"
    ELSE IF score >= th.high THEN "HIGH"
    ELSE IF score >= th.critical THEN "CRITICAL"
    ELSE "LOW"

\* Faulty variant: a score equal to a threshold falls into the lower class.
ClassifyUrgencyExclusive(score, th) ==
    IF score > th.critical THEN "CRITICAL"
    ELSE IF score > th.high THEN "HIGH"
    ELSE IF score > th.medium THEN "MEDIUM"
    ELSE "LOW"

ClassifyUrgency(score, th) ==
    IF score >= th.critical THEN "CRITICAL"
    ELSE IF score >= th.high THEN "HIGH"
    ELSE IF score >= th.medium THEN "MEDIUM"
    ELSE "LOW"

\* Point estimate of each urgency level, in tenths of an hour.
LevelSlaHours(level) ==
    CASE level = "CRITICAL" -> 30
      [] level = "HIGH" -> 100
      [] level = "MEDIUM" -> 360
      [] level = "LOW" -> 960

\* The SLA the service is recorded to return for a HIGH result:
\* suggested_sla_hours 2.8 for an INFRASTRUCTURE task (final_priority_score
\* 6.71), 4.0 otherwise (final_priority_score 7.8).
RecordedSlaHours(level, category) ==
    IF level # "HIGH" THEN Absent
    ELSE IF category = "INFRASTRUCTURE" THEN Some(28)
    ELSE Some(40)

\* Dynamic SLA from urgency and category.
SuggestedSlaHours(level, category) ==
    IF Has(RecordedSlaHours(level, category))
    THEN The(RecordedSlaHours(level, category))
    ELSE LevelSlaHours(level)

\* Faulty variant: the requester's role is ignored.
EscalationRecommendedScoreOnly(score, role, th) == score >= th.escalation

EscalationRecommended(score, role, th) ==
    \/ score >= th.escalation
    \/ role \in ExecutiveRoles /\ score >= ExecutiveEscalationThreshold

\* The sub-score with the largest weighted contribution (the first of them
\* in the order of the formula when several tie).
DominantFactor(pm) ==
    LET u == WeightUrgency * pm.urgencyScore
        b == WeightBusinessImpact * pm.businessImpactScore
        r == WeightRisk * pm.riskScore
        w == WeightRole * pm.roleWeight
        ts == WeightTimeSensitivity * pm.timeSensitivityScore
        top == Max(u, Max(b, Max(r, Max(w, ts))))
    IN IF u = top THEN "urgency"
       ELSE IF b = top THEN "business_impact"
       ELSE IF r = top THEN "risk"
       ELSE IF w = top THEN "role"
       ELSE "time"

RiskAssessment(pm) ==
    IF pm.riskScore >= 70 THEN "high"
    ELSE IF pm.riskScore >= 40 THEN "moderate" ELSE "low"

\* The complete result of the deterministic local pipeline.
LocalResult(t, m, th) ==
    LET pm == PriorityMetrics(t, m)
        level == ClassifyUrgency(pm.finalPriorityScore, th)
    IN [requestId |-> t.id,
        urgencyLevel |-> level,
        priorityMetrics |-> pm,
        reasoning |-> DominantFactor(pm),
        aiConfidence |-> Min(m.analysisConfidence, LocalConfidenceCeiling),
        suggestedSlaHours |-> SuggestedSlaHours(level, t.category),
        escalationRecommended |->
            EscalationRecommended(pm.finalPriorityScore, t.requesterRole, th),
        riskAssessment |-> RiskAssessment(pm),
        processedAt |-> "now"]

----------------------------------------------------------------------------
(* 4.5 Optional LLM refiner *)

RefinerOutcomes == {"ok", "timeout", "error", "malformed"}

RefinerFailures == RefinerOutcomes \ {"ok"}

\* Faulty variant: a failed call yields the fixed fallback score 50/100.
ApplyRefinementFixedFallback(local, outcome) ==
    IF outcome = "ok"
    THEN [local EXCEPT !.reasoning = "refined",
                       !.aiConfidence = RefinedConfidence]
    ELSE [local EXCEPT !.urgencyLevel = "MEDIUM",
                       !.priorityMetrics.finalPriorityScore = 5000,
                       !.reasoning = "risk"]

\* A usable refiner response refines the explanation and the confidence;
\* any failure leaves the local result as it is.
ApplyRefinement(local, outcome) ==
    IF outcome = "ok"
    THEN [local EXCEPT !.reasoning = "refined",
                       !.aiConfidence = RefinedConfidence]
    ELSE local

\* Faulty variant: a failed call sends the invocation back to call again.
NextAfterRefinerRetry(outcome) ==
    IF outcome \in RefinerFailures THEN "scored" ELSE "done"

\* A single bounded attempt: whatever the call came back with, the
\* invocation is over.
NextAfterRefiner(outcome) == "done"

\* Seconds a pending call has waited after the given number of ticks.
ElapsedSeconds(ticks) == (ticks * RequestTimeoutSeconds) \div MaxRefinerTicks

----------------------------------------------------------------------------
(* Legacy /classify endpoint (n8n compatibility) *)

\* The priority result in the legacy shape: a 0-100 score and a reason.
ClassifyResponse(res) ==
    [ai_score |-> res.priorityMetrics.finalPriorityScore \div 100,
     ai_reason |-> res.reasoning]

\* What /classify answers when OpenAI is unavailable.
FallbackScoring ==
    [ai_score |-> 50, ai_reason |-> "Fallback scoring due to processing error"]

ClassifyAnswer(res, outcome) ==
    IF outcome \in RefinerFailures THEN FallbackScoring
    ELSE ClassifyResponse(res)

\* The legacy body is produced on /classify only.
EndpointAnswer(res, outcome) ==
    IF endpoint = "classify" THEN Some(ClassifyAnswer(res, outcome))
    ELSE Absent

----------------------------------------------------------------------------
(* The tasks table, the mock store and the requests of the task API *)

\* Most rows the table holds, counting payloads still on their way to it.
MaxRows == 2

\* A nullable column: NULL is Absent, a value v is Some(v).
Null == Absent

\* The value of a nullable expression, or the default (JavaScript's ??).
Coalesce(v, default) == IF Has(v) THEN The(v) ELSE default

\* The in-memory store starts from its seed tasks, of which the first is
\* kept here; no seed task has an override, and a missing override_locked
\* reads as false.
SeedTasks ==
    <<[id |-> "mock-task-1", status |-> "inbox", ai_score |-> 72,
       override_priority |-> Null, override_locked |-> FALSE]>>

\* The body of POST /api/tasks: each field present or missing; a text
\* field is modelled by its length, due_at by the minutes left until then.
PostBodies ==
    {[titleLen |-> Some(20), descLen |-> Some(80), role_hint |-> Some("ceo"),
      due_at |-> Some(30)],
     [titleLen |-> Some(20), descLen |-> Some(80), role_hint |-> Absent,
      due_at |-> Absent],
     [titleLen |-> Absent, descLen |-> Absent, role_hint |-> Absent,
      due_at |-> Absent]}

\* How the n8n webhook takes a forwarded request: it answers 2xx with its
\* JSON responseData, answers another status, or cannot be reached.
WebhookOutcomes == {"accepted", "rejected", "unreachable"}

\* What the route forwards: 'Untitled Task' (13 characters), '' and
\* 'employee' stand in for missing fields.
WebhookPayload(body) ==
    [titleLen |-> Coalesce(body.titleLen, 13),
     descLen |-> Coalesce(body.descLen, 0),
     role_hint |-> Coalesce(body.role_hint, "employee"),
     due_text |-> body.due_at]

\* The TaskRequest the workflow builds from a payload.
TaskOfPayload(p) ==
    TaskOfLegacy([subjectLen |-> p.titleLen, bodyLen |-> p.descLen,
                  role_hint |-> p.role_hint, dueMinutes |-> p.due_text,
                  est_minutes |-> Absent, riskHits |-> 0])

\* The status POST /api/tasks answers with, whatever happened: treats a
\* failed call as accepted.
PostResponseCodeAlwaysAccepted(parsed, outcome) == 202

\* 202 when the webhook answered 2xx; 500 when the request body could not
\* be parsed, the webhook could not be reached or it answered another status.
PostResponseCode(parsed, outcome) ==
    IF parsed /\ outcome = "accepted" THEN 202 ELSE 500

\* The identifiers a request path can carry.
RawIds == {"1", "mock-task-1"}

\* Number(rawId), with NaN as Absent.
ParseNumericTaskId(rawId) ==
    CASE rawId = "1" -> Some(1)
      [] OTHER -> Absent

AllowedStatuses ==
    {"inbox", "todo", "approved", "in_progress", "in-progress", "done"}

\* The route's normalizeStatus: only the hyphenated spelling changes.
NormalizeStatus(status) ==
    IF status = "in-progress" THEN "in_progress" ELSE status

\* The body of PUT or PATCH /api/tasks/[id]: a field is missing (Absent) or
\* supplied; a supplied override_priority is null or a number. The requests
\* considered carry no id of their own.
PutBodies ==
    [id : {Absent},
     status : {Absent, Some("in-progress"), Some("archived")},
     override_priority : {Absent, Some(Null), Some(Some(80))},
     override_locked : {Absent, Some(TRUE), Some(FALSE)}]

\* Before any request.
NoExchange ==
    [method |-> "none", id |-> "", body |-> Absent, webhook |-> "none",
     code |-> 0, task |-> Absent]

\* The fields of a stored task that a response shows.
ResponseTask(t) ==
    [status |-> t.status, override_priority |-> t.override_priority,
     override_locked |-> t.override_locked]

----------------------------------------------------------------------------
(* The browser side: the read path and the Redux tasks slice *)

\* Nothing has been read yet.
NoReader ==
    [phase |-> "stored", shown |-> Absent, code |-> 0,
     row |-> [status |-> "incoming", priority_score |-> 0,
              urgency_level |-> "LOW", override_priority |-> Null,
              override_locked |-> FALSE]]

\* A task as the slice holds it.
SliceTask(id, status) == [id |-> id, status |-> status]

\* initialState: the tasks of getMockTasks(), nothing loading or selected.
InitialSlice ==
    [tasks |-> [i \in DOMAIN SeedTasks |->
                   SliceTask(SeedTasks[i].id, SeedTasks[i].status)],
     loading |-> FALSE, error |-> Null, selectedTask |-> Null]

----------------------------------------------------------------------------
(* Invocations running in parallel *)

\* The state one invocation keeps for itself.
NewInvocation(t) ==
    [pc |-> "received", task |-> t, isSensitive |-> FALSE, metrics |-> Absent,
     result |-> Absent, refinerCalls |-> 0, refinerOutcome |-> None,
     errors |-> {}, refinerElapsed |-> 0]

\* The content metrics of the other invocation, when there is one.
PeerMetrics == IF Has(peer) THEN The(peer).metrics ELSE Absent

\* An analyzer that keeps the metrics it computed last in an attribute all
\* invocations read.
InvocationMetricsShared(own, other) == IF Has(other) THEN other ELSE own

\* The priority calculation reads the metrics its own invocation computed.
InvocationMetrics(own, other) == own

\* The steps an invocation can take next: the pipeline of score(taskInput)
\* over the invocation's own record.
InvocationSteps(inv, cfg, otherMetrics) ==
    CASE inv.pc = "received" ->
           {[inv EXCEPT !.errors = ValidationErrors(inv.task),
                        !.pc = IF StructurallyValid(inv.task)
                               THEN "validated" ELSE "rejected"]}
      [] inv.pc = "validated" ->
           {[inv EXCEPT !.isSensitive = SensitiveGate(inv.task).isSensitive,
                        !.pc = "gated"]}
      [] inv.pc = "gated" ->
           {[inv EXCEPT !.metrics = Some(CalculateMetrics(inv.task)),
                        !.pc = "analyzed"]}
      [] inv.pc = "analyzed" ->
           {[inv EXCEPT !.result =
                           Some(LocalResult(inv.task,
                                    The(InvocationMetrics(inv.metrics,
                                                          otherMetrics)),
                                    cfg.thresholds)),
                        !.pc = "scored"]}
      [] inv.pc = "scored" ->
           IF cfg.refinerConfigured /\ PrivacyRoute(inv.isSensitive) = "openai"
           THEN {[inv EXCEPT !.refinerCalls = inv.refinerCalls + 1,
                             !.refinerElapsed = 0, !.pc = "refining"]}
           ELSE {[inv EXCEPT !.refinerOutcome = "skipped", !.pc = "done"]}
      [] inv.pc = "refining" ->
           (IF inv.refinerElapsed < MaxRefinerTicks
            THEN {[inv EXCEPT !.refinerElapsed = inv.refinerElapsed + 1]}
            ELSE {})
           \cup
           {[inv EXCEPT !.refinerOutcome = outcome,
                        !.result = Some(ApplyRefinement(The(inv.result),
                                                        outcome)),
                        !.pc = NextAfterRefiner(outcome)] :
               outcome \in {o \in RefinerOutcomes :
                               (o = "timeout") <=>
                               (inv.refinerElapsed = MaxRefinerTicks)}}
      [] OTHER -> {}

----------------------------------------------------------------------------
(* score(taskInput): one invocation *)

Init ==
    /\ pc = "received"
    /\ endpoint \in Endpoints
    /\ task \in IF endpoint = "classify" THEN LegacyTasks ELSE TaskInputs
    /\ config \in Configs
    /\ isSensitive = FALSE
    /\ auditLog = <<>>
    /\ metrics = Absent
    /\ result = Absent
    /\ refinerCalls = 0
    /\ refinerOutcome = None
    /\ errors = {}
    /\ legacyResponse = Absent
    /\ refinerElapsed = 0
    /\ peer = Absent
    /\ tasks = <<>>
    /\ webhookQueue = <<>>
    /\ mockTasks = SeedTasks
    /\ isSupabaseEnabled = TRUE
    /\ http = NoExchange
    /\ reader = NoReader
    /\ slice = InitialSlice
    /\ inflight = {}
    /\ now = 0

\* Structural validation: fails fast, before anything else runs.
Validate ==
    /\ pc = "received"
    /\ errors' = ValidationErrors(task)
    /\ pc' = IF StructurallyValid(task) THEN "validated" ELSE "rejected"
    /\ UNCHANGED <<task, config, isSensitive, auditLog, metrics, result,
                   refinerCalls, refinerOutcome>>
    /\ UNCHANGED transportVars
    /\ UNCHANGED outsideVars

\* The privacy check, with its audit entry for a sensitive task.
CheckSensitive ==
    /\ pc = "validated"
    /\ isSensitive' = SensitiveGate(task).isSensitive
    /\ auditLog' = IF SensitiveGate(task).isSensitive
                   THEN Append(auditLog, AuditEntry(task))
                   ELSE auditLog
    /\ pc' = "gated"
    /\ UNCHANGED <<task, config, metrics, result, refinerCalls,
                   refinerOutcome, errors>>
    /\ UNCHANGED transportVars
    /\ UNCHANGED outsideVars

\* Local analysis: the content metrics.
Analyze ==
    /\ pc = "gated"
    /\ metrics' = Some(CalculateMetrics(task))
    /\ pc' = "analyzed"
    /\ UNCHANGED <<task, config, isSensitive, auditLog, result, refinerCalls,
                   refinerOutcome, errors>>
    /\ UNCHANGED transportVars
    /\ UNCHANGED outsideVars

\* Priority calculation: sub-scores, final score, class, SLA, escalation.
Score ==
    /\ pc = "analyzed"
    /\ result' = Some(LocalResult(task,
                                  The(InvocationMetrics(metrics, PeerMetrics)),
                                  config.thresholds))
    /\ pc' = "scored"
    /\ UNCHANGED <<task, config, isSensitive, auditLog, metrics, refinerCalls,
                   refinerOutcome, errors>>
    /\ UNCHANGED transportVars
    /\ UNCHANGED outsideVars

RefinerEligible ==
    config.refinerConfigured /\ PrivacyRoute(isSensitive) = "openai"

\* The single, timeout-bounded call to the external refiner.
CallRefiner ==
    /\ pc = "scored"
    /\ RefinerEligible
    /\ refinerCalls' = refinerCalls + 1
    /\ refinerElapsed' = 0
    /\ pc' = "refining"
    /\ UNCHANGED <<task, config, isSensitive, auditLog, metrics, result,
                   refinerOutcome, errors, endpoint, legacyResponse>>
    /\ UNCHANGED outsideVars

\* The pending call keeps waiting, up to the request timeout.
RefinerWaits ==
    /\ pc = "refining"
    /\ refinerElapsed < MaxRefinerTicks
    /\ refinerElapsed' = refinerElapsed + 1
    /\ UNCHANGED <<pc, task, config, isSensitive, auditLog, metrics, result,
                   refinerCalls, refinerOutcome, errors, endpoint,
                   legacyResponse>>
    /\ UNCHANGED outsideVars

\* No refiner configured, or the task is sensitive: local result as it is.
SkipRefiner ==
    /\ pc = "scored"
    /\ ~RefinerEligible
    /\ refinerOutcome' = "skipped"
    /\ legacyResponse' = EndpointAnswer(The(result), "skipped")
    /\ pc' = "done"
    /\ UNCHANGED <<task, config, isSensitive, auditLog, metrics, result,
                   refinerCalls, errors, endpoint, refinerElapsed>>
    /\ UNCHANGED outsideVars

\* The call returns or fails before the timeout, or is abandoned when
\* REQUEST_TIMEOUT_SECONDS have passed.
RefinerReturns ==
    /\ pc = "refining"
    /\ \E outcome \in RefinerOutcomes :
          /\ (outcome = "timeout") <=> (refinerElapsed = MaxRefinerTicks)
          /\ refinerOutcome' = outcome
          /\ result' = Some(ApplyRefinement(The(result), outcome))
          /\ legacyResponse' =
                EndpointAnswer(ApplyRefinement(The(result), outcome), outcome)
          /\ pc' = NextAfterRefiner(outcome)
    /\ UNCHANGED <<task, config, isSensitive, auditLog, metrics, refinerCalls,
                   errors, endpoint, refinerElapsed>>
    /\ UNCHANGED outsideVars

Next ==
    \/ Validate
    \/ CheckSensitive
    \/ Analyze
    \/ Score
    \/ CallRefiner
    \/ RefinerWaits
    \/ SkipRefiner
    \/ RefinerReturns

Spec == Init /\ [][Next]_vars

----------------------------------------------------------------------------
(* Two invocations of score(taskInput) at once *)

\* Requests that differ in every stage of the pipeline: rejected or not,
\* sensitive or not, scored high or low.
ParallelTasks ==
    { [BaseTask EXCEPT !.id = i, !.titleLen = tl, !.requesterRole = r,
                       !.indicators = s] :
        i \in {"task_001"}, tl \in {0, 20}, r \in {"CEO", "EMPLOYEE"},
        s \in {{}, {"credentials"}} }

InitParallel ==
    /\ pc = "received"
    /\ endpoint = "sync"
    /\ task \in ParallelTasks
    /\ config \in Configs
    /\ isSensitive = FALSE
    /\ auditLog = <<>>
    /\ metrics = Absent
    /\ result = Absent
    /\ refinerCalls = 0
    /\ refinerOutcome = None
    /\ errors = {}
    /\ legacyResponse = Absent
    /\ refinerElapsed = 0
    /\ \E t \in ParallelTasks : peer = Some(NewInvocation(t))
    /\ tasks = <<>>
    /\ webhookQueue = <<>>
    /\ mockTasks = SeedTasks
    /\ isSupabaseEnabled = TRUE
    /\ http = NoExchange
    /\ reader = NoReader
    /\ slice = InitialSlice
    /\ inflight = {}
    /\ now = 0

\* The other invocation takes its next step; the configuration and the
\* audit log are the only things the two have in common.
PeerStep ==
    /\ Has(peer)
    /\ \E next \in InvocationSteps(The(peer), config, metrics) :
          /\ peer' = Some(next)
          /\ auditLog' = IF The(peer).pc = "validated" /\ next.isSensitive
                         THEN Append(auditLog, AuditEntry(next.task))
                         ELSE auditLog
    /\ UNCHANGED <<pc, task, config, isSensitive, metrics, result,
                   refinerCalls, refinerOutcome, errors>>
    /\ UNCHANGED transportVars
    /\ UNCHANGED storeVars
    /\ UNCHANGED clientVars

NextParallel ==
    \/ Next
    \/ PeerStep

SpecParallel == InitParallel /\ [][NextParallel]_vars

\* The fields of the returned PriorityResult.
Res == The(result)

PM == Res.priorityMetrics

Returned == pc = "done"

----------------------------------------------------------------------------
(* Claims *)

\* C1: in every invocation in which the sensitive-content gate returned
\* isSensitive = true, the number of calls to the LLM refiner is zero: the
\* invocation never enters the refiner call and no refiner outcome exists.
C1_SensitiveNeverCallsRefiner ==
    (pc \in {"gated", "analyzed", "scored", "refining", "done"} /\ isSensitive)
        => /\ refinerCalls = 0
           /\ pc # "refining"
           /\ refinerOutcome \in {None, "skipped"}

\* C1 witness: a sensitive task scored to the end with a refiner configured.
C1_Witness ==
    /\ Returned
    /\ isSensitive
    /\ config.refinerConfigured
    /\ Len(auditLog) = 1
    /\ Has(result)

\* The result the same input gets when no refiner is configured.
NoRefinerBaseline == LocalResult(task, CalculateMetrics(task), config.thresholds)

C3_ValidInput ==
    /\ task.id # None
    /\ task.titleLen > 0
    /\ task.descLen > 0
    /\ \A v \in task.businessValue : v \in 1..10
    /\ \A v \in task.riskLevel : v \in 1..10
    /\ \A v \in task.estimatedEffortHours : v > 0
    /\ \A v \in task.affectedUsersCount : v >= 1

C3_ResultComplete ==
    /\ Has(result)
    /\ DOMAIN Res = {"requestId", "urgencyLevel", "priorityMetrics",
                     "reasoning", "aiConfidence", "suggestedSlaHours",
                     "escalationRecommended", "riskAssessment", "processedAt"}
    /\ Res.requestId = task.id
    /\ Res.urgencyLevel \in UrgencyLevels
    /\ DOMAIN PM = {"urgencyScore", "businessImpactScore", "riskScore",
                    "roleWeight", "timeSensitivityScore",
                    "effortComplexityScore", "finalPriorityScore"}
    /\ \A f \in DOMAIN PM : PM[f] \in Nat
    /\ Res.reasoning \in {"urgency", "business_impact", "risk", "role", "time",
                          "refined"}
    /\ Res.aiConfidence \in Nat
    /\ Res.suggestedSlaHours \in Nat
    /\ Res.escalationRecommended \in BOOLEAN
    /\ Res.riskAssessment \in {"high", "moderate", "low"}

C4_FinalScoreIsWeightedSum ==
    /\ WeightUrgency + WeightBusinessImpact + WeightRisk + WeightRole
         + WeightTimeSensitivity = 100
    /\ Has(result) =>
          LET sum == 30 * PM.urgencyScore + 25 * PM.businessImpactScore
                     + 20 * PM.riskScore + 15 * PM.roleWeight
                     + 10 * PM.timeSensitivityScore
          IN PM.finalPriorityScore
                = (IF sum < 0 THEN 0 ELSE IF sum > 10000 THEN 10000 ELSE sum)

\* C4 witness: a returned result in which all five terms contribute.
C4_Witness ==
    /\ Returned
    /\ PM.urgencyScore > 0 /\ PM.businessImpactScore > 0 /\ PM.riskScore > 0
    /\ PM.roleWeight > 0 /\ PM.timeSensitivityScore > 0
    /\ PM.finalPriorityScore = 30 * PM.urgencyScore + 25 * PM.businessImpactScore
          + 20 * PM.riskScore + 15 * PM.roleWeight + 10 * PM.timeSensitivityScore

\* The class a score belongs to under thresholds th, as half-open intervals.
InClass(level, score, th) ==
    CASE level = "CRITICAL" -> score >= th.critical
      [] level = "HIGH" -> th.high <= score /\ score < th.critical
      [] level = "MEDIUM" -> th.medium <= score /\ score < th.high
      [] level = "LOW" -> score < th.medium

\* Scores 0.0, 0.25, ..., 10.0 and the configured thresholds themselves.
ScoreGrid(th) ==
    {250 * i : i \in 0..40} \cup {th.critical, th.high, th.medium}
    \cup {th.critical - 1, th.high - 1, th.medium - 1}

\* C5: under every configured threshold set, every score in [0,10] (those of
\* the grid and the one of the result) lies in exactly one of the four
\* classes, and the classifier assigns that class.
C5_ClassificationTotalAndDisjoint ==
    /\ (pc = "scored") =>
          (\A s \in ScoreGrid(config.thresholds) :
              /\ Cardinality({l \in UrgencyLevels :
                                  InClass(l, s, config.thresholds)}) = 1
              /\ ClassifyUrgency(s, config.thresholds) \in UrgencyLevels
              /\ InClass(ClassifyUrgency(s, config.thresholds), s,
                         config.thresholds))
    /\ Has(result) =>
          /\ Res.urgencyLevel \in UrgencyLevels
          /\ \A l \in UrgencyLevels :
                InClass(l, PM.finalPriorityScore, config.thresholds)
                    <=> l = Res.urgencyLevel

\* C5 witness: a result classified HIGH under the .env thresholds whose
\* score is also above the MEDIUM threshold.
C5_Witness ==
    /\ Returned
    /\ config.thresholds = EnvThresholds
    /\ Res.urgencyLevel = "HIGH"
    /\ PM.finalPriorityScore >= 6500

\* C6: with the default thresholds, CRITICAL exactly when score >= 8.0, HIGH
\* exactly when 6.0 <= score < 8.0, MEDIUM exactly when 4.0 <= score < 6.0,
\* LOW exactly when score < 4.0; 8.0, 6.0 and 4.0 belong to the higher class.
C6_DefaultThresholdBoundaries ==
    /\ (pc = "scored" /\ config.thresholds = DefaultThresholds) =>
          /\ ClassifyUrgency(8000, config.thresholds) = "CRITICAL"
          /\ ClassifyUrgency(7999, config.thresholds) = "HIGH"
          /\ ClassifyUrgency(6000, config.thresholds) = "HIGH"
          /\ ClassifyUrgency(5999, config.thresholds) = "MEDIUM"
          /\ ClassifyUrgency(4000, config.thresholds) = "MEDIUM"
          /\ ClassifyUrgency(3999, config.thresholds) = "LOW"
    /\ (Has(result) /\ config.thresholds = DefaultThresholds) =>
          /\ Res.urgencyLevel = "CRITICAL" <=> PM.finalPriorityScore >= 8000
          /\ Res.urgencyLevel = "HIGH" <=>
                (6000 <= PM.finalPriorityScore /\ PM.finalPriorityScore < 8000)
          /\ Res.urgencyLevel = "MEDIUM" <=>
                (4000 <= PM.finalPriorityScore /\ PM.finalPriorityScore < 6000)
          /\ Res.urgencyLevel = "LOW" <=> PM.finalPriorityScore < 4000

\* C6 witness: under the default thresholds a score exactly on a boundary,
\* classified into the higher class.
C6_Witness ==
    /\ Returned
    /\ config.thresholds = DefaultThresholds
    /\ \/ PM.finalPriorityScore = 8000 /\ Res.urgencyLevel = "CRITICAL"
       \/ PM.finalPriorityScore = 6000 /\ Res.urgencyLevel = "HIGH"
       \/ PM.finalPriorityScore = 4000 /\ Res.urgencyLevel = "MEDIUM"

\* C7: urgencyScore, businessImpactScore, riskScore, timeSensitivityScore,
\* effortComplexityScore and finalPriorityScore lie in [0,10], roleWeight in
\* [0,5], suggestedSlaHours is strictly positive, aiConfidence lies in [0,1].
C7_ScoresInRange ==
    Has(result) =>
        /\ PM.urgencyScore \in 0..100
        /\ PM.businessImpactScore \in 0..100
        /\ PM.riskScore \in 0..100
        /\ PM.timeSensitivityScore \in 0..100
        /\ PM.effortComplexityScore \in 0..100
        /\ PM.finalPriorityScore \in 0..10000
        /\ PM.roleWeight \in 0..50
        /\ Res.suggestedSlaHours > 0
        /\ Res.aiConfidence \in 0..100

\* C7 witness: a CEO task whose urgency and risk scores sit on the upper
\* clamp.
C7_Witness ==
    /\ Returned
    /\ PM.urgencyScore = 100
    /\ PM.roleWeight = 50
    /\ PM.riskScore = 100

\* The tasks differing from t only in what feeds the auto-calculation of the
\* fields t overrides (the role feeds the business value).
SignalVariants(t) ==
    { [t EXCEPT !.requesterRole = IF Has(t.businessValue) THEN r
                                  ELSE t.requesterRole,
                !.bizHits = IF Has(t.businessValue) THEN b ELSE t.bizHits,
                !.riskHits = IF Has(t.riskLevel) THEN k ELSE t.riskHits,
                !.complexity = IF Has(t.estimatedEffortHours) THEN x
                               ELSE t.complexity,
                !.usersMention = IF Has(t.affectedUsersCount) THEN u
                                 ELSE t.usersMention,
                !.workaroundText = IF Has(t.workaroundAvailable) THEN w
                                   ELSE t.workaroundText] :
        r \in {"CEO", "EMPLOYEE", UnknownRole},
        b \in {0, MaxKeywordHits}, k \in {0, MaxKeywordHits},
        x \in {0, MaxComplexitySignals}, u \in {"none", "number"},
        w \in BOOLEAN }

\* C8: a supplied override for businessValue, riskLevel,
\* estimatedEffortHours, affectedUsersCount or workaroundAvailable is the
\* value of the ContentMetrics field, and whatever the auto-calculator would
\* have produced for an overridden field changes neither the metrics nor
\* analysisConfidence.
C8_OverrideWins ==
    Has(metrics) =>
        /\ \A v \in task.businessValue : The(metrics).businessValue = v
        /\ \A v \in task.riskLevel : The(metrics).riskLevel = v
        /\ \A v \in task.estimatedEffortHours : The(metrics).effortHours = v
        /\ \A v \in task.affectedUsersCount : The(metrics).affectedUsers = v
        /\ \A v \in task.workaroundAvailable :
              The(metrics).workaroundAvailable = v
        /\ (pc = "analyzed") =>
              \A t2 \in SignalVariants(task) :
                  CalculateMetrics(t2) = The(metrics)

\* C8 witness: businessValue overridden to 10 where the auto-calculator
\* would say 3, next to a riskLevel that is auto-calculated.
C8_Witness ==
    /\ pc = "analyzed"
    /\ task.businessValue = Some(10)
    /\ AutoBusinessValue(task) = 3
    /\ ~Has(task.riskLevel)
    /\ The(metrics).businessValue = 10

\* C9: escalationRecommended is true exactly when finalPriorityScore >= 8.0,
\* or requesterRole is CEO, CFO or CTO and finalPriorityScore >= 6.0.
C9_EscalationRule ==
    Has(result) =>
        (Res.escalationRecommended <=>
            \/ PM.finalPriorityScore >= 8000
            \/ /\ task.requesterRole \in {"CEO", "CFO", "CTO"}
               /\ PM.finalPriorityScore >= 6000)

\* C9 witness: an executive's task scored between 6.0 and 8.0 is escalated.
C9_Witness ==
    /\ Returned
    /\ task.requesterRole = "CFO"
    /\ PM.finalPriorityScore >= 6000
    /\ PM.finalPriorityScore < 8000
    /\ Res.escalationRecommended

\* The documented SLA window of each urgency level, in tenths of an hour.
InSlaWindow(level, sla) ==
    CASE level = "CRITICAL" -> 20 <= sla /\ sla <= 40
      [] level = "HIGH" -> 80 <= sla /\ sla <= 120
      [] level = "MEDIUM" -> 240 <= sla /\ sla <= 480
      [] level = "LOW" -> 720 <= sla

\* C10: suggestedSlaHours lies inside the SLA window of the result's own
\* urgencyLevel: 2-4 hours CRITICAL, 8-12 HIGH, 24-48 MEDIUM, 72+ LOW.
C10_SlaInsideWindow ==
    Has(result) => InSlaWindow(Res.urgencyLevel, Res.suggestedSlaHours)

\* The valid tasks identical to t except for the risk level, whether it is
\* derived from the text or supplied as an override.
RiskVariants(t) ==
    { [t EXCEPT !.riskLevel = rl] : rl \in {Some(v) : v \in 1..10} }
    \cup { [t EXCEPT !.riskHits = k] : k \in KeywordHits }

\* The score of a valid task, as the local pipeline computes it.
ScoreOf(t) == PriorityMetrics(t, CalculateMetrics(t))

\* C11: of two valid inputs identical except that the second has the higher
\* riskLevel (auto-derived or overridden), the second has a riskScore and a
\* finalPriorityScore that are not lower than the first's.
C11_RiskMonotone ==
    (pc = "scored") =>
        \A t2 \in RiskVariants(task) :
            CalculateMetrics(t2).riskLevel > The(metrics).riskLevel =>
                /\ ScoreOf(t2).riskScore >= PM.riskScore
                /\ ScoreOf(t2).finalPriorityScore >= PM.finalPriorityScore

\* C11 witness: a scored task of risk level 1 whose variant of risk level 10
\* scores strictly higher on both.
C11_Witness ==
    /\ pc = "scored"
    /\ task.riskLevel = Some(1)
    /\ PM.riskScore = 10
    /\ ScoreOf([task EXCEPT !.riskLevel = Some(10)]).riskScore = 100
    /\ ScoreOf([task EXCEPT !.riskLevel = Some(10)]).finalPriorityScore
          > PM.finalPriorityScore

\* The task identical to t except for the requester's role.
WithRole(t, role) == [t EXCEPT !.requesterRole = role]

\* C12: of two valid inputs identical except that one has requesterRole CEO
\* and the other EMPLOYEE, the CEO input's finalPriorityScore is strictly
\* greater.
C12_CeoOutranksEmployee ==
    (pc = "scored") =>
        /\ task.requesterRole = "CEO" =>
              PM.finalPriorityScore
                  > ScoreOf(WithRole(task, "EMPLOYEE")).finalPriorityScore
        /\ task.requesterRole = "EMPLOYEE" =>
              ScoreOf(WithRole(task, "CEO")).finalPriorityScore
                  > PM.finalPriorityScore

\* C12 witness: a CEO's task with an overridden business value, so that the
\* role weight alone (5.0 against 2.0, weighted 0.15) makes the difference.
C12_Witness ==
    /\ pc = "scored"
    /\ task.requesterRole = "CEO"
    /\ Has(task.businessValue)
    /\ PM.finalPriorityScore
          = ScoreOf(WithRole(task, "EMPLOYEE")).finalPriorityScore + 450

\* A structurally invalid TaskInput: missing id, empty title or description,
\* or a manual override outside its declared range.
C13_Invalid ==
    \/ task.id = None
    \/ task.titleLen = 0
    \/ task.descLen = 0
    \/ \E v \in task.businessValue : v < 1 \/ v > 10
    \/ \E v \in task.riskLevel : v < 1 \/ v > 10
    \/ \E v \in task.estimatedEffortHours : v <= 0
    \/ \E v \in task.affectedUsersCount : v < 1

\* C13: a structurally invalid TaskInput fails with a ValidationError before
\* any other step runs: no content metric is computed, no audit entry of the
\* sensitive gate is written, no refiner call is made and no result is built.
C13_ValidationFailsFast ==
    C13_Invalid =>
        /\ pc \in {"received", "rejected"}
        /\ pc = "rejected" => errors # {}
        /\ metrics = Absent
        /\ auditLog = <<>>
        /\ isSensitive = FALSE
        /\ refinerCalls = 0
        /\ refinerOutcome = None
        /\ result = Absent

\* C13 witness: a request without id whose text holds a credential has been
\* rejected, and the gate has written nothing.
C13_Witness ==
    /\ pc = "rejected"
    /\ task.id = None
    /\ task.indicators # {}
    /\ "missing_id" \in errors
    /\ auditLog = <<>>

\* C14: no failure other than a ValidationError makes the service return a
\* fixed default score: when the processing of a structurally valid request
\* hits an error (the external AI being unavailable), the returned score is
\* the one the deterministic local pipeline computes from that input.
C14_NoFixedDefaultScore ==
    (Returned /\ refinerOutcome \in RefinerFailures) =>
        /\ PM.finalPriorityScore = ScoreOf(task).finalPriorityScore
        /\ \A r \in legacyResponse :
              r.ai_score = ScoreOf(task).finalPriorityScore \div 100

C18_CfoMeetingInput ==
    /\ task.category = "MEETING_PREP"
    /\ task.requesterRole = "CFO"
    /\ task.meetingTime = Some(ImminentHours)
    /\ StructurallyValid(task)

----------------------------------------------------------------------------
(* Task API and workflow over the tasks table *)

\* What a handler answers and leaves behind.
Answer(code, shown, tbl, store) ==
    [code |-> code, task |-> shown, tasks |-> tbl, mockTasks |-> store]

\* An insert that re-scores the oldest task instead of adding a row.
InsertTaskUpsert(tbl, row) ==
    IF tbl = <<>> THEN Append(tbl, row)
    ELSE [tbl EXCEPT ![1].priority_score = row.priority_score,
                     ![1].urgency_level = row.urgency_level,
                     ![1].override_priority = row.override_priority]

\* The workflow's "Insert Task" node: a new row under the next serial id.
InsertTask(tbl, row) == Append(tbl, row)

\* The row the workflow inserts for a scored payload.
ScoredRow(p) ==
    LET score == ScoreOf(TaskOfPayload(p)).finalPriorityScore
    IN [status |-> "incoming", priority_score |-> score,
        urgency_level |-> ClassifyUrgency(score, DefaultThresholds),
        override_priority |-> Null, override_locked |-> FALSE]

\* taskOperations.updateTaskStatus: the updated row; with no such row
\* .single() reports an error, which the operation throws.
UpdateTaskStatus(tbl, store, id, status) ==
    IF id \in DOMAIN tbl
    THEN Answer(200, Some(ResponseTask([tbl[id] EXCEPT !.status = status])),
                [tbl EXCEPT ![id].status = status], store)
    ELSE Answer(500, Absent, tbl, store)

\* taskOperations.updateTaskPriority: sets both override columns.
UpdateTaskPriority(tbl, store, id, priority, locked) ==
    IF id \in DOMAIN tbl
    THEN Answer(200,
                Some(ResponseTask([tbl[id] EXCEPT
                                      !.override_priority = Some(priority),
                                      !.override_locked = locked])),
                [tbl EXCEPT ![id].override_priority = Some(priority),
                            ![id].override_locked = locked], store)
    ELSE Answer(500, Absent, tbl, store)

\* updateSupabaseTask: a status wins over the override fields; without any
\* of the three fields updateTask finds nothing to set and returns null.
UpdateSupabaseTask(tbl, store, rawId, body) ==
    LET numericId == ParseNumericTaskId(rawId)
    IN IF ~Has(numericId) THEN Answer(400, Absent, tbl, store)
       ELSE IF Has(body.status)
       THEN IF The(body.status) \notin AllowedStatuses
            THEN Answer(400, Absent, tbl, store)
            ELSE UpdateTaskStatus(tbl, store, The(numericId),
                                  NormalizeStatus(The(body.status)))
       ELSE IF Has(body.override_priority) \/ Has(body.override_locked)
       THEN UpdateTaskPriority(tbl, store, The(numericId),
                Coalesce(Coalesce(body.override_priority, Null), 50),
                Coalesce(body.override_locked, FALSE))
       ELSE Answer(404, Absent, tbl, store)

\* Index of the first mock task with the id, 0 when there is none.
FindIndex(store, rawId) ==
    IF \E i \in DOMAIN store : store[i].id = rawId
    THEN CHOOSE i \in DOMAIN store :
            /\ store[i].id = rawId
            /\ \A j \in 1..(i - 1) : store[j].id # rawId
    ELSE 0

\* updateMockTask: the supplied fields over the current task.
UpdateMockTask(current, body) ==
    [current EXCEPT
        !.id = Coalesce(body.id, current.id),
        !.status = IF Has(body.status) THEN NormalizeStatus(The(body.status))
                   ELSE current.status,
        !.override_priority = Coalesce(body.override_priority,
                                       current.override_priority),
        !.override_locked = Coalesce(body.override_locked,
                                     current.override_locked)]

\* updateMockTaskResponse.
UpdateMockTaskResponse(tbl, store, rawId, body) ==
    LET index == FindIndex(store, rawId)
    IN IF Has(body.status) /\ The(body.status) \notin AllowedStatuses
       THEN Answer(400, Absent, tbl, store)
       ELSE IF index = 0 THEN Answer(404, Absent, tbl, store)
       ELSE Answer(200,
                   Some(ResponseTask(UpdateMockTask(store[index], body))),
                   tbl,
                   [store EXCEPT ![index] = UpdateMockTask(store[index], body)])

engineVars ==
    <<pc, task, config, isSensitive, auditLog, metrics, result, refinerCalls,
      refinerOutcome, errors, endpoint, legacyResponse, refinerElapsed, peer>>

InitTasks ==
    /\ pc = "received"
    /\ endpoint = "sync"
    /\ task = BaseTask
    /\ config = [thresholds |-> DefaultThresholds, refinerConfigured |-> FALSE]
    /\ isSensitive = FALSE
    /\ auditLog = <<>>
    /\ metrics = Absent
    /\ result = Absent
    /\ refinerCalls = 0
    /\ refinerOutcome = None
    /\ errors = {}
    /\ legacyResponse = Absent
    /\ refinerElapsed = 0
    /\ peer = Absent
    /\ tasks = <<>>
    /\ webhookQueue = <<>>
    /\ mockTasks = SeedTasks
    /\ isSupabaseEnabled \in BOOLEAN
    /\ http = NoExchange
    /\ reader = NoReader
    /\ slice = InitialSlice
    /\ inflight = {}
    /\ now = 0

\* POST /api/tasks: forwards to the n8n webhook and never touches the table.
PostTask ==
    /\ Len(tasks) + Len(webhookQueue) < MaxRows
    /\ \E request \in {Absent} \cup {Some(b) : b \in PostBodies},
          outcome \in WebhookOutcomes :
          /\ http' = [method |-> "POST", id |-> "", body |-> request,
                      webhook |-> IF Has(request) THEN outcome ELSE "none",
                      code |-> PostResponseCode(Has(request), outcome),
                      task |-> Absent]
          /\ webhookQueue' = IF Has(request) /\ outcome = "accepted"
                             THEN Append(webhookQueue,
                                         WebhookPayload(The(request)))
                             ELSE webhookQueue
    /\ UNCHANGED <<tasks, mockTasks, isSupabaseEnabled>>
    /\ UNCHANGED engineVars
    /\ UNCHANGED clientVars

\* The workflow scores an accepted payload and inserts the task.
WorkflowInsert ==
    /\ webhookQueue # <<>>
    /\ StructurallyValid(TaskOfPayload(Head(webhookQueue)))
    /\ tasks' = InsertTask(tasks, ScoredRow(Head(webhookQueue)))
    /\ webhookQueue' = Tail(webhookQueue)
    /\ UNCHANGED <<mockTasks, isSupabaseEnabled, http>>
    /\ UNCHANGED engineVars
    /\ UNCHANGED clientVars

\* The prioritization service rejects the payload: nothing is inserted.
WorkflowRejects ==
    /\ webhookQueue # <<>>
    /\ ~StructurallyValid(TaskOfPayload(Head(webhookQueue)))
    /\ webhookQueue' = Tail(webhookQueue)
    /\ UNCHANGED <<tasks, mockTasks, isSupabaseEnabled, http>>
    /\ UNCHANGED engineVars
    /\ UNCHANGED clientVars

\* PUT /api/tasks/[id]; PATCH hands its request to PUT, so a PATCH is the
\* same step. The request body is a JSON object or does not parse.
PutTask ==
    /\ \E rawId \in RawIds, request \in {Absent} \cup {Some(b) : b \in PutBodies} :
          \E answer \in
                {IF ~Has(request) THEN Answer(400, Absent, tasks, mockTasks)
                 ELSE IF isSupabaseEnabled
                 THEN UpdateSupabaseTask(tasks, mockTasks, rawId, The(request))
                 ELSE UpdateMockTaskResponse(tasks, mockTasks, rawId,
                                             The(request))} :
             /\ http' = [method |-> "PUT", id |-> rawId, body |-> request,
                         webhook |-> "none", code |-> answer.code,
                         task |-> answer.task]
             /\ tasks' = answer.tasks
             /\ mockTasks' = answer.mockTasks
    /\ UNCHANGED <<webhookQueue, isSupabaseEnabled>>
    /\ UNCHANGED engineVars
    /\ UNCHANGED clientVars

NextTasks ==
    \/ PostTask
    \/ WorkflowInsert
    \/ WorkflowRejects
    \/ PutTask

SpecTasks == InitTasks /\ [][NextTasks]_vars

----------------------------------------------------------------------------
(* C17 *)

\* What an invocation returns when it runs alone: the local result, refined
\* or not according to how its own refiner call went.
AloneResult(t, cfg, outcome) ==
    IF outcome = "skipped"
    THEN LocalResult(t, CalculateMetrics(t), cfg.thresholds)
    ELSE ApplyRefinement(LocalResult(t, CalculateMetrics(t), cfg.thresholds),
                         outcome)

\* A result without its processedAt timestamp.
SansProcessedAt(res) == [f \in DOMAIN res \ {"processedAt"} |-> res[f]]

\* An invocation that has finished holds the result it would hold alone.
IsolatedOutcome(state, t, cfg, res, outcome, errs) ==
    /\ state = "done" =>
          SansProcessedAt(The(res)) = SansProcessedAt(AloneResult(t, cfg, outcome))
    /\ state = "rejected" => res = Absent /\ errs = ValidationErrors(t)

----------------------------------------------------------------------------
(* C16 *)

\* The step is a successful manual update of the row with the given id.
ManualUpdate(id) ==
    /\ http' # http
    /\ http'.method = "PUT"
    /\ ParseNumericTaskId(http'.id) = Some(id)
    /\ http'.code = 200

LockedRowKept(id) ==
    /\ id \in DOMAIN tasks'
    /\ tasks'[id].priority_score = tasks[id].priority_score
    /\ \/ tasks'[id].override_priority = tasks[id].override_priority
       \/ ManualUpdate(id)

\* C16: for a stored task whose override_locked flag is true, no automatic
\* step (the workflow scoring and inserting a task) changes the stored
\* priority score or the manual override; the override changes only in a
\* step that is a successful manual update of that task.
C16_LockedTaskNotRescored ==
    [][\A id \in DOMAIN tasks : tasks[id].override_locked => LockedRowKept(id)]_vars

\* A task was locked with a manual override, and after that the workflow
\* scored and inserted another request.
C16_Witness ==
    /\ Len(tasks) = MaxRows
    /\ tasks[1].override_locked
    /\ tasks[1].override_priority = Some(80)
    /\ http.method = "POST"
    /\ http.code = 202
    /\ webhookQueue = <<>>

----------------------------------------------------------------------------
(* C19 *)

\* The step answers a POST /api/tasks.
PostAnswered == http' # http /\ http'.method = "POST"

\* C19: POST /api/tasks never writes to the tasks table: an accepted
\* request is handed to the n8n webhook and nothing else, a row appears in
\* the table only when the workflow takes a payload it accepted, and the
\* route answers 202 when the webhook accepted the request and 500 when it
\* did not.
C19_PostForwardsToWebhook ==
    [][/\ PostAnswered => tasks' = tasks /\ mockTasks' = mockTasks
       /\ http'.method = "POST" =>
             /\ http'.webhook = "accepted" => http'.code = 202
             /\ http'.webhook # "accepted" => http'.code = 500
       /\ PostAnswered =>
             webhookQueue' = IF http'.webhook = "accepted"
                             THEN Append(webhookQueue,
                                         WebhookPayload(The(http'.body)))
                             ELSE webhookQueue
       /\ tasks' # tasks /\ Len(tasks') > Len(tasks) =>
             /\ webhookQueue # <<>>
             /\ webhookQueue' = Tail(webhookQueue)
             /\ http' = http]_vars

\* A POST was answered 202 and the workflow has inserted its task.
C19_Witness ==
    /\ http.method = "POST"
    /\ http.code = 202
    /\ http.webhook = "accepted"
    /\ webhookQueue = <<>>
    /\ Len(tasks) = 1

----------------------------------------------------------------------------
(* C20 *)

\* The task a successful request addressed, as it is stored afterwards.
StoredTask(rawId) ==
    IF isSupabaseEnabled
    THEN ResponseTask(tasks[The(ParseNumericTaskId(rawId))])
    ELSE ResponseTask(mockTasks[FindIndex(mockTasks, rawId)])

\* C20: after a successful PUT or PATCH /api/tasks/[id], every one of the
\* fields status, override_priority and override_locked that the body
\* supplied is applied to the stored task, and the response shows the task
\* with all of them updated.
C20_PutAppliesEverySuppliedField ==
    (http.method = "PUT" /\ http.code = 200) =>
        LET body == The(http.body)
            shown == The(http.task)
        IN /\ shown = StoredTask(http.id)
           /\ Has(body.status) =>
                  shown.status = NormalizeStatus(The(body.status))
           /\ Has(body.override_priority) =>
                  shown.override_priority = The(body.override_priority)
           /\ Has(body.override_locked) =>
                  shown.override_locked = The(body.override_locked)

----------------------------------------------------------------------------
(* C21 *)

\* The request TaskTable.handleOverrideChange sends for an empty priority
\* field: override_priority null together with the lock checkbox, no status.
EmptyOverrideSaved ==
    /\ http.method = "PUT"
    /\ http.code = 200
    /\ ~Has(The(http.body).status)
    /\ The(http.body).override_priority = Some(Null)
    /\ Has(The(http.body).override_locked)

\* C21: when a user saves an empty manual priority (override_priority =
\* null), the stored override_priority of the task becomes null, so that
\* its ordering falls back to the AI score.
C21_EmptyOverrideStoresNull ==
    EmptyOverrideSaved => StoredTask(http.id).override_priority = Null

----------------------------------------------------------------------------
(* C28 *)

\* A task with this id is stored in the backend the route uses.
TaskExists(rawId) ==
    IF isSupabaseEnabled
    THEN /\ Has(ParseNumericTaskId(rawId))
         /\ The(ParseNumericTaskId(rawId)) \in DOMAIN tasks
    ELSE FindIndex(mockTasks, rawId) # 0

\* C28: a PUT or PATCH to /api/tasks/[id] answers 404 only when no task
\* with that id exists at the time of the request; for an existing task it
\* never answers 404, whatever valid JSON body is sent.
C28_NotFoundOnlyWhenMissing ==
    [][(http' # http /\ http'.method = "PUT" /\ http'.code = 404)
          => ~TaskExists(http'.id)]_vars

----------------------------------------------------------------------------
(* C26 *)

\* COALESCE(override_priority, priority_score), in thousandths: the
\* override as the number it is, the score as the 0-10 number it is.
OrderKey(row) ==
    IF Has(row.override_priority) THEN 1000 * The(row.override_priority)
    ELSE row.priority_score

\* ORDER BY ... DESC, created_at DESC: of two rows the one with the larger
\* key comes first, and of two with the same key the one inserted later.
ComesBefore(tbl, a, b) ==
    \/ OrderKey(tbl[a]) > OrderKey(tbl[b])
    \/ OrderKey(tbl[a]) = OrderKey(tbl[b]) /\ a > b

\* The position of a row in the ordered result.
RankOf(tbl, id) ==
    1 + Cardinality({other \in DOMAIN tbl : ComesBefore(tbl, other, id)})

\* Math.round(priority_score * 10), missing when priority_score is falsy.
AiScore(priority_score) ==
    IF priority_score = 0 THEN Absent
    ELSE Some((priority_score + 50) \div 100)

\* The status the read path shows for a stored status.
ShownStatus(status) ==
    CASE status = "incoming" -> "inbox"
      [] status = "in_progress" -> "in-progress"
      [] OTHER -> status

\* mapDatabaseToTask, for the fields kept here.
MapDatabaseToTask(id, row) ==
    [id |-> id, ai_score |-> AiScore(row.priority_score),
     override_priority |-> row.override_priority,
     override_locked |-> row.override_locked,
     status |-> ShownStatus(row.status)]

\* taskOperations.getTasks without filters.
GetTasks(tbl) ==
    [position \in 1..Len(tbl) |->
        LET id == CHOOSE i \in DOMAIN tbl : RankOf(tbl, i) = position
        IN MapDatabaseToTask(id, tbl[id])]

\* The priority a listed task is meant to be ordered by, on the 0-100
\* scale: the manual override, or the AI score when there is none.
EffectivePriority(t) ==
    IF Has(t.override_priority) THEN The(t.override_priority)
    ELSE Coalesce(t.ai_score, 0)

\* C26: the list getTasks returns is in non-increasing order of effective
\* priority, a manual override (0 to 100) and an AI score being compared on
\* the same 0-100 scale.
C26_ListOrderedByEffectivePriority ==
    \A i, j \in 1..Len(tasks) :
        i < j => EffectivePriority(GetTasks(tasks)[i])
                    >= EffectivePriority(GetTasks(tasks)[j])

----------------------------------------------------------------------------
(* Reading a stored task and writing what was read back *)

\* priority_score is a number from 0 to 10; this many hundredths at most.
MaxScoreHundredths == 1000

\* The stored scores considered, in thousandths: every hundredth of 0-10.
StoredScores == {10 * h : h \in 0..MaxScoreHundredths}

\* The statuses a row can hold: what the workflow inserts and what
\* PUT /api/tasks/[id] writes.
DbStatuses == {"incoming"} \cup {NormalizeStatus(st) : st \in AllowedStatuses}

othersVars ==
    <<pc, task, config, isSensitive, auditLog, metrics, result, refinerCalls,
      refinerOutcome, errors, endpoint, legacyResponse, refinerElapsed, peer,
      tasks, webhookQueue, mockTasks, isSupabaseEnabled, http>>

InitRead ==
    /\ pc = "received"
    /\ endpoint = "sync"
    /\ task = BaseTask
    /\ config = [thresholds |-> DefaultThresholds, refinerConfigured |-> FALSE]
    /\ isSensitive = FALSE
    /\ auditLog = <<>>
    /\ metrics = Absent
    /\ result = Absent
    /\ refinerCalls = 0
    /\ refinerOutcome = None
    /\ errors = {}
    /\ legacyResponse = Absent
    /\ refinerElapsed = 0
    /\ peer = Absent
    /\ tasks = <<>>
    /\ webhookQueue = <<>>
    /\ mockTasks = SeedTasks
    /\ isSupabaseEnabled = TRUE
    /\ http = NoExchange
    /\ \E st \in DbStatuses, ps \in StoredScores :
          reader = [NoReader EXCEPT
                       !.row.status = st, !.row.priority_score = ps,
                       !.row.urgency_level =
                           ClassifyUrgency(ps, DefaultThresholds)]
    /\ slice = InitialSlice
    /\ inflight = {}
    /\ now = 0

\* GET /api/tasks: the row as mapDatabaseToTask shows it.
ReadTask ==
    /\ reader.phase = "stored"
    /\ reader' = [reader EXCEPT
                     !.phase = "shown",
                     !.shown = Some(MapDatabaseToTask(1, reader.row))]
    /\ UNCHANGED othersVars
    /\ UNCHANGED <<slice, inflight, now>>

\* PUT /api/tasks/1 with the status that was shown, unchanged.
WriteShownStatus ==
    /\ reader.phase = "shown"
    /\ \E answer \in
          {UpdateSupabaseTask(<<reader.row>>, mockTasks, "1",
               [id |-> Absent, status |-> Some(The(reader.shown).status),
                override_priority |-> Absent, override_locked |-> Absent])} :
          reader' = [reader EXCEPT !.phase = "written",
                                   !.code = answer.code,
                                   !.row = answer.tasks[1]]
    /\ UNCHANGED othersVars
    /\ UNCHANGED <<slice, inflight, now>>

NextRead ==
    \/ ReadTask
    \/ WriteShownStatus

SpecRead == InitRead /\ [][NextRead]_vars

----------------------------------------------------------------------------
(* C27 *)

\* C27: for every status the read path returns for a stored task, sending
\* that value back unchanged through PUT /api/tasks/[id] leaves the task's
\* database status equal to what it was before.
C27_StatusRoundTrip ==
    [][(reader.phase = "shown" /\ reader'.phase = "written")
          => reader'.row.status = reader.row.status]_vars

----------------------------------------------------------------------------
(* C30 *)

\* C30: for every stored priority_score s in [0,10], the task returned to
\* the UI has an ai_score, equal to s multiplied by 10 and rounded to the
\* nearest integer, a value in [0,100].
C30_AiScoreIsScaledScore ==
    (reader.phase = "shown") =>
        /\ Has(The(reader.shown).ai_score)
        /\ The(The(reader.shown).ai_score)
              = (reader.row.priority_score + 50) \div 100
        /\ The(The(reader.shown).ai_score) \in 0..100

----------------------------------------------------------------------------
(* The in-memory task store on its own *)

\* Most tasks the store holds.
MaxMockTasks == 2

\* Milliseconds the clock runs for.
MaxClock == 1

\* `mock-task-${Date.now()}`, the clock counting from 1700000000000.
GeneratedId(t) == "mock-task-170000000000" \o ToString(t)

\* What a caller hands to createMockTask: an id of its own choosing or
\* none; Math.random() leaves the ai_score at either end of 50..90.
CreateData == [id : {Absent, Some("mock-task-1"), Some("custom-1")}]

RandomAiScores == {50, 90}

\* The updates a caller hands to updateMockTask.
MockUpdates ==
    [id : {Absent, Some("custom-1")}, status : {Absent, Some("done")},
     override_priority : {Absent}, override_locked : {Absent}]

\* The ids a caller may address.
MockIds == {"mock-task-1", "custom-1"} \cup {GeneratedId(t) : t \in 0..MaxClock}

\* createMockTask: the new task goes to the end of the store.
CreateMockTaskResult(store, data, t, random) ==
    Append(store,
           [id |-> Coalesce(data.id, GeneratedId(t)), status |-> "inbox",
            ai_score |-> random, override_priority |-> Null,
            override_locked |-> FALSE])

\* deleteMockTask: the first task with the id goes.
DeleteMockTaskResult(store, id) ==
    LET index == FindIndex(store, id)
    IN IF index = 0 THEN store
       ELSE [i \in 1..(Len(store) - 1) |->
                IF i < index THEN store[i] ELSE store[i + 1]]

notMockVars ==
    <<pc, task, config, isSensitive, auditLog, metrics, result, refinerCalls,
      refinerOutcome, errors, endpoint, legacyResponse, refinerElapsed, peer,
      tasks, webhookQueue, isSupabaseEnabled, http, reader, slice, inflight>>

InitMock ==
    /\ pc = "received"
    /\ endpoint = "sync"
    /\ task = BaseTask
    /\ config = [thresholds |-> DefaultThresholds, refinerConfigured |-> FALSE]
    /\ isSensitive = FALSE
    /\ auditLog = <<>>
    /\ metrics = Absent
    /\ result = Absent
    /\ refinerCalls = 0
    /\ refinerOutcome = None
    /\ errors = {}
    /\ legacyResponse = Absent
    /\ refinerElapsed = 0
    /\ peer = Absent
    /\ tasks = <<>>
    /\ webhookQueue = <<>>
    /\ mockTasks = SeedTasks
    /\ isSupabaseEnabled = FALSE
    /\ http = NoExchange
    /\ reader = NoReader
    /\ slice = InitialSlice
    /\ inflight = {}
    /\ now = 0

\* A millisecond passes.
Tick ==
    /\ now < MaxClock
    /\ now' = now + 1
    /\ UNCHANGED mockTasks
    /\ UNCHANGED notMockVars

CreateMockTask ==
    /\ Len(mockTasks) < MaxMockTasks
    /\ \E data \in CreateData, random \in RandomAiScores :
          mockTasks' = CreateMockTaskResult(mockTasks, data, now, random)
    /\ UNCHANGED now
    /\ UNCHANGED notMockVars

UpdateMockTaskCall ==
    /\ \E id \in MockIds, updates \in MockUpdates :
          /\ FindIndex(mockTasks, id) # 0
          /\ mockTasks' =
                [mockTasks EXCEPT ![FindIndex(mockTasks, id)] =
                    UpdateMockTask(mockTasks[FindIndex(mockTasks, id)],
                                   updates)]
    /\ UNCHANGED now
    /\ UNCHANGED notMockVars

DeleteMockTask ==
    /\ \E id \in MockIds :
          /\ FindIndex(mockTasks, id) # 0
          /\ mockTasks' = DeleteMockTaskResult(mockTasks, id)
    /\ UNCHANGED now
    /\ UNCHANGED notMockVars

NextMock ==
    \/ Tick
    \/ CreateMockTask
    \/ UpdateMockTaskCall
    \/ DeleteMockTask

SpecMock == InitMock /\ [][NextMock]_vars

----------------------------------------------------------------------------
(* C24 *)

\* C24: after any sequence of createMockTask, updateMockTask and
\* deleteMockTask calls no two stored tasks have the same id, so that an
\* update or delete by id affects exactly the task the caller addressed.
C24_MockIdsUnique ==
    \A i, j \in DOMAIN mockTasks :
        mockTasks[i].id = mockTasks[j].id => i = j

----------------------------------------------------------------------------
(* The Redux tasks slice on its own *)

\* Most entries state.tasks holds.
MaxSliceTasks == 2

\* Most thunks pending at once.
MaxPending == 2

\* The ids the user interface addresses.
SliceIds == {"mock-task-1", "1"}

\* What the n8n webhook answers and POST /api/tasks passes on.
WebhookReply ==
    [status |-> "accepted", message |-> "Oppgave mottatt for AI-behandling"]

\* The lists GET /api/tasks may answer with.
ServerLists ==
    {<<>>,
     <<SliceTask("mock-task-1", "done")>>,
     <<SliceTask("1", "inbox"), SliceTask("mock-task-1", "inbox")>>}

\* String(item.id): an item without an id gives "undefined".
IdOf(item) == IF "id" \in DOMAIN item THEN item.id ELSE "undefined"

\* findIndex by String(id): the first match, 0 for none.
FindSliceIndex(list, id) ==
    IF \E i \in DOMAIN list : IdOf(list[i]) = id
    THEN CHOOSE i \in DOMAIN list :
            /\ IdOf(list[i]) = id
            /\ \A j \in 1..(i - 1) : IdOf(list[j]) # id
    ELSE 0

\* filter: the entries whose String(id) differs from id, in order.
RECURSIVE WithoutId(_, _)
WithoutId(list, id) ==
    IF list = <<>> THEN <<>>
    ELSE IF IdOf(Head(list)) = id THEN WithoutId(Tail(list), id)
         ELSE <<Head(list)>> \o WithoutId(Tail(list), id)

\* A dispatched thunk gets the first free request id.
NewRequest(kind, id, status) ==
    [requestId |-> CHOOSE n \in 1..MaxPending :
                      /\ \A r \in inflight : r.requestId # n
                      /\ \A m \in 1..(n - 1) :
                            \E r \in inflight : r.requestId = m,
     kind |-> kind, id |-> id, status |-> status]

\* The thunks of one kind that are still pending.
Pending(kind) == {r \in inflight : r.kind = kind}

notSliceVars ==
    <<pc, task, config, isSensitive, auditLog, metrics, result, refinerCalls,
      refinerOutcome, errors, endpoint, legacyResponse, refinerElapsed, peer,
      tasks, webhookQueue, mockTasks, isSupabaseEnabled, http, reader, now>>

InitSlice ==
    /\ pc = "received"
    /\ endpoint = "sync"
    /\ task = BaseTask
    /\ config = [thresholds |-> DefaultThresholds, refinerConfigured |-> FALSE]
    /\ isSensitive = FALSE
    /\ auditLog = <<>>
    /\ metrics = Absent
    /\ result = Absent
    /\ refinerCalls = 0
    /\ refinerOutcome = None
    /\ errors = {}
    /\ legacyResponse = Absent
    /\ refinerElapsed = 0
    /\ peer = Absent
    /\ tasks = <<>>
    /\ webhookQueue = <<>>
    /\ mockTasks = SeedTasks
    /\ isSupabaseEnabled = TRUE
    /\ http = NoExchange
    /\ reader = NoReader
    /\ slice = InitialSlice
    /\ inflight = {}
    /\ now = 0

\* setSelectedTask: the user selects an entry of the list, or nothing.
SetSelectedTask ==
    /\ \E payload \in {Null} \cup
                      {Some(slice.tasks[i]) : i \in DOMAIN slice.tasks} :
          slice' = [slice EXCEPT !.selectedTask = payload]
    /\ UNCHANGED inflight
    /\ UNCHANGED notSliceVars

\* setTaskStatus
SetTaskStatus ==
    /\ \E targetId \in SliceIds, status \in {"done"} :
          \E taskIndex \in {FindSliceIndex(slice.tasks, targetId)} :
             slice' =
                [slice EXCEPT
                    !.tasks =
                        [i \in DOMAIN slice.tasks |->
                            IF i = taskIndex
                            THEN [slice.tasks[i] EXCEPT !.status = status]
                            ELSE slice.tasks[i]],
                    !.selectedTask =
                        IF /\ Has(slice.selectedTask)
                           /\ IdOf(The(slice.selectedTask)) = targetId
                        THEN Some([The(slice.selectedTask) EXCEPT
                                      !.status = status])
                        ELSE slice.selectedTask]
    /\ UNCHANGED inflight
    /\ UNCHANGED notSliceVars

\* clearError
ClearError ==
    /\ Has(slice.error)
    /\ slice' = [slice EXCEPT !.error = Null]
    /\ UNCHANGED inflight
    /\ UNCHANGED notSliceVars

\* fetchTasks.pending
FetchTasksPending ==
    /\ Cardinality(inflight) < MaxPending
    /\ inflight' = inflight \cup {NewRequest("fetchTasks", "", "")}
    /\ slice' = [slice EXCEPT !.loading = TRUE, !.error = Null]
    /\ UNCHANGED notSliceVars

\* fetchTasks.fulfilled
FetchTasksFulfilled ==
    /\ \E r \in Pending("fetchTasks"), payload \in ServerLists :
          /\ Len(payload) <= MaxSliceTasks
          /\ inflight' = inflight \ {r}
          /\ slice' = [slice EXCEPT !.loading = FALSE, !.tasks = payload]
    /\ UNCHANGED notSliceVars

\* fetchTasks.rejected
FetchTasksRejected ==
    /\ \E r \in Pending("fetchTasks") :
          /\ inflight' = inflight \ {r}
          /\ slice' = [slice EXCEPT !.loading = FALSE,
                                    !.error = Some("Failed to fetch tasks")]
    /\ UNCHANGED notSliceVars

\* createTask.pending
CreateTaskPending ==
    /\ Cardinality(inflight) < MaxPending
    /\ Len(slice.tasks) + Cardinality(Pending("createTask")) < MaxSliceTasks
    /\ inflight' = inflight \cup {NewRequest("createTask", "", "")}
    /\ slice' = [slice EXCEPT !.loading = TRUE, !.error = Null]
    /\ UNCHANGED notSliceVars

\* createTask.fulfilled: the payload is what POST /api/tasks answered.
CreateTaskFulfilled ==
    /\ \E r \in Pending("createTask") :
          /\ Len(slice.tasks) < MaxSliceTasks
          /\ inflight' = inflight \ {r}
          /\ slice' = [slice EXCEPT !.loading = FALSE,
                                    !.tasks = Append(@, WebhookReply)]
    /\ UNCHANGED notSliceVars

\* createTask.rejected
CreateTaskRejected ==
    /\ \E r \in Pending("createTask") :
          /\ inflight' = inflight \ {r}
          /\ slice' = [slice EXCEPT !.loading = FALSE,
                                    !.error = Some("Failed to create task")]
    /\ UNCHANGED notSliceVars

\* updateTask.pending: only the error is cleared.
UpdateTaskPending ==
    /\ Cardinality(inflight) < MaxPending
    /\ \E id \in SliceIds, status \in {"done"} :
          inflight' = inflight \cup {NewRequest("updateTask", id, status)}
    /\ slice' = [slice EXCEPT !.error = Null]
    /\ UNCHANGED notSliceVars

\* updateTask.fulfilled: the payload is the task as the server updated it.
UpdateTaskFulfilled ==
    /\ \E r \in Pending("updateTask") :
          \E payload \in {SliceTask(r.id, r.status)},
             index \in {FindSliceIndex(slice.tasks, r.id)} :
             /\ inflight' = inflight \ {r}
             /\ slice' =
                   [slice EXCEPT
                       !.loading = FALSE,
                       !.tasks =
                           [i \in DOMAIN slice.tasks |->
                               IF i = index THEN payload ELSE slice.tasks[i]],
                       !.selectedTask =
                           IF /\ Has(slice.selectedTask)
                              /\ "id" \in DOMAIN The(slice.selectedTask)
                              /\ The(slice.selectedTask).id = payload.id
                           THEN Some(payload)
                           ELSE slice.selectedTask]
    /\ UNCHANGED notSliceVars

\* updateTask.rejected
UpdateTaskRejected ==
    /\ \E r \in Pending("updateTask") :
          /\ inflight' = inflight \ {r}
          /\ slice' = [slice EXCEPT !.loading = FALSE,
                                    !.error = Some("Failed to update task")]
    /\ UNCHANGED notSliceVars

\* deleteTask.pending
DeleteTaskPending ==
    /\ Cardinality(inflight) < MaxPending
    /\ \E id \in SliceIds :
          inflight' = inflight \cup {NewRequest("deleteTask", id, "")}
    /\ slice' = [slice EXCEPT !.loading = TRUE, !.error = Null]
    /\ UNCHANGED notSliceVars

\* deleteTask.fulfilled: the payload is the id.
DeleteTaskFulfilled ==
    /\ \E r \in Pending("deleteTask") :
          /\ inflight' = inflight \ {r}
          /\ slice' =
                [slice EXCEPT
                    !.loading = FALSE,
                    !.tasks = WithoutId(@, r.id),
                    !.selectedTask =
                        IF /\ Has(slice.selectedTask)
                           /\ IdOf(The(slice.selectedTask)) = r.id
                        THEN Null
                        ELSE slice.selectedTask]
    /\ UNCHANGED notSliceVars

\* deleteTask.rejected
DeleteTaskRejected ==
    /\ \E r \in Pending("deleteTask") :
          /\ inflight' = inflight \ {r}
          /\ slice' = [slice EXCEPT !.loading = FALSE,
                                    !.error = Some("Failed to delete task")]
    /\ UNCHANGED notSliceVars

NextSlice ==
    \/ SetSelectedTask
    \/ SetTaskStatus
    \/ ClearError
    \/ FetchTasksPending
    \/ FetchTasksFulfilled
    \/ FetchTasksRejected
    \/ CreateTaskPending
    \/ CreateTaskFulfilled
    \/ CreateTaskRejected
    \/ UpdateTaskPending
    \/ UpdateTaskFulfilled
    \/ UpdateTaskRejected
    \/ DeleteTaskPending
    \/ DeleteTaskFulfilled
    \/ DeleteTaskRejected

SpecSlice == InitSlice /\ [][NextSlice]_vars

----------------------------------------------------------------------------
(* C22 *)

\* C22: after any sequence of reducer actions and thunk completions the
\* selected task is null or equal, id and data, to an entry of state.tasks.
C22_SelectedTaskIsListed ==
    Has(slice.selectedTask) =>
        \E i \in DOMAIN slice.tasks : slice.tasks[i] = The(slice.selectedTask)

----------------------------------------------------------------------------
(* C23 *)

\* C23: state.loading is true whenever a fetch, create, update or delete
\* request is pending and false whenever none is, for every interleaving.
C23_LoadingIffPending == slice.loading <=> (inflight # {})

----------------------------------------------------------------------------
(* C25 *)

\* An entry with the id and the status of a task.
IsTaskRecord(item) == {"id", "status"} \subseteq DOMAIN item

\* C25: every element of state.tasks is a task record, with its id and
\* status, also after createTask has fulfilled.
C25_EveryEntryIsTaskRecord ==
    \A i \in DOMAIN slice.tasks : IsTaskRecord(slice.tasks[i])

----------------------------------------------------------------------------
(* C29 *)

\* C29: classification and escalation agree under the configured
\* thresholds: every result classified CRITICAL has escalationRecommended
\* true, and no result classified MEDIUM or LOW has it.
C29_ClassificationAgreesWithEscalation ==
    Has(result) =>
        /\ Res.urgencyLevel = "CRITICAL" => Res.escalationRecommended
        /\ Res.urgencyLevel \in {"MEDIUM", "LOW"} =>
              ~Res.escalationRecommended

====
